---- MODULE Spec2Model ----
(***************************************************************************)
(* Risk engine of SolyforTrenchers: the weighted-penalty scorer            *)
(* (utils/helpers.py, calculate_risk_score) and the rug-pattern detector   *)
(* (ai/analyzer.py, TokenAnalyzer.detect_rug_patterns).                    *)
(*                                                                         *)
(* Numbers.  Every penalty is a multiple of 5.0, so the float score is     *)
(* modelled exactly by an integer.  The numeric fields are reals in the    *)
(* code; each is compared against integer thresholds in one direction      *)
(* only (holder_count and liquidity_usd with <, the percentages with >),   *)
(* so an integer on each side of every threshold covers every real.        *)
(*                                                                         *)
(* A mapping (a Python dict) is a function whose DOMAIN is the set of keys *)
(* that are present; dict.get(key, default) is Get.                        *)
(***************************************************************************)
EXTENDS Integers, Sequences, FiniteSets

VARIABLES
    pc,        \* where the caller is: "idle", "scoring", "scored", "collecting",
               \* "detected", "failed" (an exception reached the caller)
    factors,   \* the mapping the caller passes to calculate_risk_score
    contrib,   \* what each "score += ..." statement added during the call
    score,     \* the local variable score just before the cap of line 76
    result,    \* the value calculate_risk_score returned
    passed,    \* the caller's own copy of the mapping, as it was when passed
    memo,      \* an earlier call a caller remembers: <<>> or <<mapping, result>>
    between,   \* how many calls were started since memo was last set
    transaction_history,  \* the list passed to detect_rug_patterns
    patterns,  \* the dict detect_rug_patterns returned
    raised,    \* whether the except clause of detect_rug_patterns ran
    analyzer,  \* the fields of the TokenAnalyzer instance
    heap,      \* the dicts the detector has created, by identity (1, 2, ...)
    ref,       \* the identity of the dict the last call returned (0: none)
    kept,      \* a verdict a caller holds on to: <<>> or
               \* <<its identity, its value when returned, its history>>
    job,       \* concurrent callers: what each one calls, and with what
    cpc,       \* concurrent callers: the next statement of each call (0: returned)
    frame,     \* the local variables of the calls, by frame
    out,       \* concurrent callers: what each call returned
    loop,      \* a call followed record by record: the loop index, the running
               \* total of sum(), the records visited and the steps taken
    contract,  \* analyze_token_contract: the calls made, the liquidity input,
               \* the outcome of the LLM request, the value returned and the
               \* exception that reached the caller
    bot,       \* the fields of the SolyTwitterBot instance
    now,       \* datetime.utcnow(), in minutes
    tasks,     \* the coroutines that call post_tweet: where each one is
    sent       \* how many tweets the posting client has posted

scorerVars == <<factors, contrib, score, result, passed, memo, between>>

detectorVars == <<transaction_history, patterns, raised>>

analyzerVars == <<analyzer, heap, ref, kept>>

concVars == <<job, cpc, frame, out, loop>>

serviceVars == <<contract, bot, now, tasks, sent>>

vars == <<pc, scorerVars, detectorVars, analyzerVars, concVars, serviceVars>>

-----------------------------------------------------------------------------
(* Inputs *)

\* An optional value: <<>> when the key is absent, <<v>> when it is present.
Opt(S) == {<<>>} \cup {<<v>> : v \in S}

FactorKeys ==
    {"mint_authority_revoked", "freeze_authority_revoked", "holder_count",
     "top_10_holdings_pct", "dev_holdings_pct", "liquidity_locked", "liquidity_usd"}

\* The dict built from one optional value per key.
MkFactors(m, fz, h, t, d, lk, lq) ==
    LET given == [mint_authority_revoked |-> m, freeze_authority_revoked |-> fz,
                  holder_count |-> h, top_10_holdings_pct |-> t,
                  dev_holdings_pct |-> d, liquidity_locked |-> lk,
                  liquidity_usd |-> lq]
    IN  [k \in {x \in FactorKeys : given[x] # <<>>} |-> given[k][1]]

\* Values on both sides of every threshold, the values of the documented
\* scenarios, and values outside the documented range of each field.
HolderCounts  == {-1, 10, 49, 50, 99, 100, 1000}
Top10Pcts     == {-5, 10, 40, 41, 60, 61, 80, 85, 95, 150}
DevPcts       == {-5, 2, 10, 11, 20, 21, 30, 150}
LiquidityUsds == {-1, 100, 4999, 5000, 100000}

EmptyFactors == MkFactors(<<>>, <<>>, <<>>, <<>>, <<>>, <<>>, <<>>)

\* dict.get(key, default)
Get(f, k, default) == IF k \in DOMAIN f THEN f[k] ELSE default

Min(a, b) == IF a <= b THEN a ELSE b

-----------------------------------------------------------------------------
(* calculate_risk_score, statement by statement *)


\* Defect: a wrong weight for the mint authority.
MintPenaltyHeavy(f) ==
    IF ~Get(f, "mint_authority_revoked", FALSE) THEN 40 ELSE 0

MintPenalty(f) ==
    IF ~Get(f, "mint_authority_revoked", FALSE) THEN 30 ELSE 0

FreezePenalty(f) ==
    IF ~Get(f, "freeze_authority_revoked", FALSE) THEN 20 ELSE 0


\* Defects of the holder tiers: the boundary 50 put in the severe tier, and
\* the two tier weights exchanged.
HolderPenaltyInclusive(f) ==
    LET holder_count == Get(f, "holder_count", 0)
    IN  IF holder_count <= 50 THEN 15
        ELSE IF holder_count < 100 THEN 10
        ELSE 0

HolderPenaltySwapped(f) ==
    LET holder_count == Get(f, "holder_count", 0)
    IN  IF holder_count < 50 THEN 10
        ELSE IF holder_count < 100 THEN 15
        ELSE 0

HolderPenalty(f) ==
    LET holder_count == Get(f, "holder_count", 0)
    IN  IF holder_count < 50 THEN 15
        ELSE IF holder_count < 100 THEN 10
        ELSE 0



\* Defect: a percentage above 100 is taken as invalid and adds nothing.
Top10PenaltyRangeChecked(f) ==
    LET top_10_pct == Get(f, "top_10_holdings_pct", 0)
    IN  IF top_10_pct > 100 THEN 0
        ELSE IF top_10_pct > 80 THEN 20
        ELSE IF top_10_pct > 60 THEN 15
        ELSE IF top_10_pct > 40 THEN 10
        ELSE 0

\* Defect: the tiers tested with independent "if"s, so that they add up.
Top10PenaltyCumulative(f) ==
    LET top_10_pct == Get(f, "top_10_holdings_pct", 0)
    IN  (IF top_10_pct > 80 THEN 20 ELSE 0)
        + (IF top_10_pct > 60 THEN 15 ELSE 0)
        + (IF top_10_pct > 40 THEN 10 ELSE 0)

Top10Penalty(f) ==
    LET top_10_pct == Get(f, "top_10_holdings_pct", 0)
    IN  IF top_10_pct > 80 THEN 20
        ELSE IF top_10_pct > 60 THEN 15
        ELSE IF top_10_pct > 40 THEN 10
        ELSE 0

DevPenalty(f) ==
    LET dev_holdings_pct == Get(f, "dev_holdings_pct", 0)
    IN  IF dev_holdings_pct > 20 THEN 15
        ELSE IF dev_holdings_pct > 10 THEN 10
        ELSE 0

\* Defect: a missing liquidity_locked read as locked.
LockPenaltyDefaultLocked(f) ==
    IF ~Get(f, "liquidity_locked", TRUE) THEN 20 ELSE 0

LockPenalty(f) ==
    IF ~Get(f, "liquidity_locked", FALSE) THEN 20 ELSE 0


\* Defect: the boundary 5000 counted as low liquidity.
LiquidityPenaltyInclusive(f) ==
    LET liquidity_usd == Get(f, "liquidity_usd", 0)
    IN  IF liquidity_usd <= 5000 THEN 10 ELSE 0

LiquidityPenalty(f) ==
    LET liquidity_usd == Get(f, "liquidity_usd", 0)
    IN  IF liquidity_usd < 5000 THEN 10 ELSE 0

\* The amounts added to score, in the order of the statements.
Penalties(f) ==
    [mint |-> MintPenalty(f), freeze |-> FreezePenalty(f),
     holder |-> HolderPenalty(f), top10 |-> Top10Penalty(f),
     dev |-> DevPenalty(f), lock |-> LockPenalty(f),
     liquidity |-> LiquidityPenalty(f)]

NoPenalties ==
    [mint |-> 0, freeze |-> 0, holder |-> 0, top10 |-> 0, dev |-> 0,
     lock |-> 0, liquidity |-> 0]


\* Defect: the statement that adds the liquidity-lock penalty is missing.
SumPenaltiesNoLock(c) ==
    c.mint + c.freeze + c.holder + c.top10 + c.dev + c.liquidity

\* score after the last "score += ..." (score starts at 0.0, line 33).
SumPenalties(c) ==
    c.mint + c.freeze + c.holder + c.top10 + c.dev + c.lock + c.liquidity

\* return min(score, 100.0)

\* Defect: the cap is left out.
CapMissing(s) == s

Cap(s) == Min(s, 100)

calculate_risk_score(f) == Cap(SumPenalties(Penalties(f)))

-----------------------------------------------------------------------------
(* TokenAnalyzer.detect_rug_patterns *)

\* A transaction is a dict with the optional keys "type" and "amount".  An
\* amount is <<"num", n>> for the int n, <<"float", x>> for the float x and
\* <<"none">> for a value that cannot be added to a number (None, a string).
MkTx(type, amount) ==
    LET given == [type |-> type, amount |-> amount]
    IN  [k \in {x \in {"type", "amount"} : given[x] # <<>>} |-> given[k][1]]

Number(n) == <<"num", n>>
Float(x) == <<"float", x>>
NotANumber == <<"none">>

\* Floats.  A Python float keeps 53 significant bits and every addition
\* rounds its exact result to the nearest float, ties to the even mantissa.
\* The model keeps the rounding rule and narrows the mantissa to
\* MantissaBits bits, so that rounding happens at sums near the threshold
\* of 50: the floats are then the integers m * 2^e with m < 2^MantissaBits.
MantissaBits == 5

Abs(x) == IF x < 0 THEN 0 - x ELSE x

\* The spacing of the floats around the magnitude a.
RECURSIVE Ulp(_, _)
Ulp(a, step) == IF a < (2 ^ MantissaBits) * step THEN step ELSE Ulp(a, 2 * step)

\* Round to nearest, ties to even.
Round(x) ==
    LET a == Abs(x)
        step == Ulp(a, 1)
        q == a \div step
        r == a % step
        m == IF 2 * r > step \/ (2 * r = step /\ q % 2 = 1) THEN q + 1 ELSE q
    IN  IF x < 0 THEN 0 - m * step ELSE m * step

\* a + b of two numbers: exact on two ints, otherwise the int operand is
\* converted to float and the float sum is rounded.
Add(a, b) ==
    IF a[1] = "num" /\ b[1] = "num"
    THEN Number(a[2] + b[2])
    ELSE Float(Round(Round(a[2]) + Round(b[2])))

\* The value of: patterns = {"is_suspicious": False, "risk_level": "LOW",
\* "detected_patterns": [], "confidence": 0.0}.  confidence is in tenths.
InitialPatterns ==
    [is_suspicious |-> FALSE, risk_level |-> "LOW",
     detected_patterns |-> <<>>, confidence |-> 0]

\* tx.get('type') == t
HasType(tx, t) == "type" \in DOMAIN tx /\ tx["type"] = t

dev_sells(h) == SelectSeq(h, LAMBDA tx : HasType(tx, "dev_sell"))

\* Defect: tx.get('type', 'lp_remove'), which counts a record with no type.
lp_removesDefaulted(h) ==
    SelectSeq(h, LAMBDA tx : "type" \notin DOMAIN tx \/ tx["type"] = "lp_remove")

lp_removes(h) == SelectSeq(h, LAMBDA tx : HasType(tx, "lp_remove"))

\* tx.get('amount', 0)
AmountOf(tx) == Get(tx, "amount", Number(0))

\* sum(...) raises TypeError on the first amount that is not a number.
IsNumber(a) == a[1] \in {"num", "float"}

SumRaises(txs) == \E i \in 1..Len(txs) : ~IsNumber(AmountOf(txs[i]))

\* sum() adds from the left, starting from the int 0.
RECURSIVE SumFrom(_, _)
SumFrom(acc, txs) ==
    IF txs = <<>> THEN acc
    ELSE SumFrom(Add(acc, AmountOf(Head(txs))), Tail(txs))

SumAmounts(txs) == SumFrom(Number(0), txs)[2]

\* Defect: the dev-sell check made an equality, if len(dev_sells) == 4.
DevSellCheckExactly(p, h) ==
    IF Len(dev_sells(h)) = 4
    THEN [p EXCEPT !.detected_patterns =
                       Append(@, "Multiple dev wallet sells detected"),
                   !.risk_level = "MEDIUM"]
    ELSE p

\* Defect: the threshold of the dev-sell check made inclusive.
DevSellCheckInclusive(p, h) ==
    IF Len(dev_sells(h)) >= 3
    THEN [p EXCEPT !.detected_patterns =
                       Append(@, "Multiple dev wallet sells detected"),
                   !.risk_level = "MEDIUM"]
    ELSE p

\* if len(dev_sells) > 3: ...
DevSellCheck(p, h) ==
    IF Len(dev_sells(h)) > 3
    THEN [p EXCEPT !.detected_patterns =
                       Append(@, "Multiple dev wallet sells detected"),
                   !.risk_level = "MEDIUM"]
    ELSE p

\* Defect: the liquidity check without line 212, the risk level left as it is.
LpRemoveCheckKeepsLevel(p, h) ==
    IF Len(lp_removes(h)) > 0 /\ SumAmounts(lp_removes(h)) > 50
    THEN [p EXCEPT !.detected_patterns =
                       Append(@, "Significant liquidity removal"),
                   !.is_suspicious = TRUE]
    ELSE p

\* Defect: the threshold of the liquidity check made inclusive.
LpRemoveCheckInclusive(p, h) ==
    IF Len(lp_removes(h)) > 0 /\ SumAmounts(lp_removes(h)) >= 50
    THEN [p EXCEPT !.detected_patterns =
                       Append(@, "Significant liquidity removal"),
                   !.risk_level = "HIGH",
                   !.is_suspicious = TRUE]
    ELSE p

\* if len(lp_removes) > 0: total_removed = sum(...); if total_removed > 50: ...
LpRemoveCheck(p, h) ==
    IF Len(lp_removes(h)) > 0 /\ SumAmounts(lp_removes(h)) > 50
    THEN [p EXCEPT !.detected_patterns =
                       Append(@, "Significant liquidity removal"),
                   !.risk_level = "HIGH",
                   !.is_suspicious = TRUE]
    ELSE p

\* Defect: the pattern count off by one.
SetConfidenceOffByOne(p) ==
    [p EXCEPT !.confidence = Min((Len(p.detected_patterns) + 1) * 3, 10)]

\* patterns["confidence"] = min(len(patterns["detected_patterns"]) * 0.3, 1.0)
SetConfidence(p) ==
    [p EXCEPT !.confidence = Min(Len(p.detected_patterns) * 3, 10)]

\* Whether the try block raises: only the sum over the lp_remove amounts can.
Raises(h) == Len(lp_removes(h)) > 0 /\ SumRaises(lp_removes(h))

\* Defect: an except clause too narrow for the TypeError of sum().
CatchesNothing(h) == FALSE

\* except Exception as e: every exception the try block raises is caught.
Catches(h) == Raises(h)

\* Defect: the two checks in the other order.
detect_rug_patternsLpFirst(h) ==
    IF Raises(h)
    THEN InitialPatterns
    ELSE SetConfidence(DevSellCheck(LpRemoveCheck(InitialPatterns, h), h))

\* The dict returned: when the sum raises, the except clause logs and the
\* dict is returned as the statements before the sum left it.
detect_rug_patterns(h) ==
    LET afterDevSells == DevSellCheck(InitialPatterns, h)
    IN  IF Raises(h)
        THEN afterDevSells
        ELSE SetConfidence(LpRemoveCheck(afterDevSells, h))

\* TokenAnalyzer.__init__: model, is_ready and the empty cache (the API
\* client is an external collaborator).
InitialAnalyzer ==
    [model |-> "gpt-4-turbo-preview", is_ready |-> TRUE, cache |-> <<>>]

-----------------------------------------------------------------------------
(* Calls made concurrently *)

\* SolyTwitterBot.__init__: the rate-limit fields (the API client is an
\* external collaborator).  last_tweet_time is <<>> for None.
max_tweets_per_day == 50
min_tweet_interval_minutes == 15

InitialBot ==
    [is_running |-> FALSE, last_tweet_time |-> <<>>, tweet_queue |-> <<>>,
     tweets_today |-> 0]

\* The coroutines that call post_tweet: the scheduled updates of
\* _post_update and the token alerts of post_token_alert.
Tasks == {"update", "alert"}

\* A coroutine that is not inside post_tweet.  at is "idle", "called" (the
\* call was made), "requested" (suspended at the await of create_tweet) or
\* "posted" (the client has posted the tweet, the coroutine has not resumed);
\* returned is <<>>, or <<b>> when its last call returned b, and why says
\* which return statement that was.
IdleTask == [at |-> "idle", returned |-> <<>>, why |-> ""]

\* No call of analyze_token_contract was made.  llm is <<>> before the
\* request ends, then <<"response", choices>> or <<"raised", exception>>;
\* analysis is <<>> or <<the dict returned>>; error names the exception
\* that reached the caller.
NoContract ==
    [calls |-> 0, total_usd |-> Number(0), llm |-> <<>>, analysis |-> <<>>,
     error |-> ""]

\* Nothing was asked of the LLM or of the posting client.
NoService ==
    /\ contract = NoContract
    /\ bot = InitialBot
    /\ now = 0
    /\ tasks = [t \in Tasks |-> IdleTask]
    /\ sent = 0

\* How many callers call at the same time.
NumCallers == 2

Callers == 1..NumCallers

\* The local variables of a call: score of calculate_risk_score; patterns,
\* dev_sells and lp_removes of detect_rug_patterns.
NoLocals ==
    [score |-> 0, patterns |-> InitialPatterns, dev_sells |-> <<>>,
     lp_removes |-> <<>>]

NoOut == [score |-> 0, patterns |-> InitialPatterns]

NoJob == [kind |-> "none", factors |-> EmptyFactors, history |-> <<>>]

NoLoop == [i |-> 1, total |-> Number(0), visits |-> 0, steps |-> 0]

\* No concurrent caller is at work.
NoCallers ==
    /\ job = [c \in Callers |-> NoJob]
    /\ cpc = [c \in Callers |-> 0]
    /\ frame = [c \in Callers |-> NoLocals]
    /\ out = [c \in Callers |-> NoOut]
    /\ loop = NoLoop
    /\ NoService

\* Defect: the locals are module-level variables, one set for all calls.
FrameShared(c) == 1

\* Each call has a frame of its own for its local variables.
Frame(c) == c

-----------------------------------------------------------------------------
(* The caller of the scorer *)

\* A caller has built a mapping and calls calculate_risk_score with it.
Init ==
    /\ pc = "scoring"
    /\ \E m \in Opt(BOOLEAN), fz \in Opt(BOOLEAN), h \in Opt(HolderCounts),
          t \in Opt(Top10Pcts), d \in Opt(DevPcts), lk \in Opt(BOOLEAN),
          lq \in Opt(LiquidityUsds) :
          factors = MkFactors(m, fz, h, t, d, lk, lq)
    /\ passed = factors
    /\ contrib = NoPenalties
    /\ score = 0
    /\ result = 0
    /\ memo = <<>>
    /\ between = 0
    /\ transaction_history = <<>>
    /\ patterns = InitialPatterns
    /\ raised = FALSE
    /\ analyzer = InitialAnalyzer
    /\ heap = <<>>
    /\ ref = 0
    /\ kept = <<>>
    /\ NoCallers

\* Defect: a field read with dict.setdefault instead of dict.get, which
\* writes the default into the caller's mapping.
ScoreReturnSetDefault ==
    /\ pc = "scoring"
    /\ contrib' = Penalties(factors)
    /\ score' = SumPenalties(contrib')
    /\ result' = Cap(score')
    /\ pc' = "scored"
    /\ factors' = [k \in DOMAIN factors \cup {"top_10_holdings_pct"} |->
                        Get(factors, k, 0)]
    /\ UNCHANGED <<passed, memo, between, detectorVars, analyzerVars, concVars, serviceVars>>

\* The body of calculate_risk_score: it reads factors, accumulates the local
\* score and returns the capped value.
ScoreReturn ==
    /\ pc = "scoring"
    /\ contrib' = Penalties(factors)
    /\ score' = SumPenalties(contrib')
    /\ result' = Cap(score')
    /\ pc' = "scored"
    /\ UNCHANGED <<factors, passed, memo, between, detectorVars, analyzerVars, concVars, serviceVars>>

Next == ScoreReturn

Spec == Init /\ [][Next]_vars

-----------------------------------------------------------------------------
(* A caller that calls the scorer again and again *)

\* The mappings the repeating caller passes: some keys absent, some present.
RepeatInputs ==
    {MkFactors(m, fz, h, t, d, <<TRUE>>, lq) :
        m \in {<<TRUE>>, <<FALSE>>}, fz \in Opt({TRUE}), h \in {<<10>>, <<1000>>},
        t \in Opt({95}), d \in {<<2>>, <<30>>}, lq \in Opt({100000})}

\* How many calls the caller makes after the one it remembers.
MaxBetween == 2

RepeatInit ==
    /\ pc = "idle"
    /\ factors = EmptyFactors
    /\ passed = EmptyFactors
    /\ contrib = NoPenalties
    /\ score = 0
    /\ result = 0
    /\ memo = <<>>
    /\ between = 0
    /\ transaction_history = <<>>
    /\ patterns = InitialPatterns
    /\ raised = FALSE
    /\ analyzer = InitialAnalyzer
    /\ heap = <<>>
    /\ ref = 0
    /\ kept = <<>>
    /\ NoCallers

\* The caller builds a mapping, keeps a copy of it and calls the scorer;
\* the call starts with fresh locals (score = 0.0).
ScoreCall ==
    /\ pc \in {"idle", "scored"}
    /\ between < MaxBetween
    /\ between' = between + 1
    /\ \E f \in RepeatInputs : factors' = f /\ passed' = f
    /\ pc' = "scoring"
    /\ contrib' = NoPenalties
    /\ score' = 0
    /\ result' = 0
    /\ UNCHANGED <<memo, detectorVars, analyzerVars, concVars, serviceVars>>

\* The caller keeps the mapping it passed and the score it got for later.
Remember ==
    /\ pc = "scored"
    /\ memo' = <<passed, result>>
    /\ between' = 0
    /\ UNCHANGED <<pc, factors, contrib, score, result, passed, detectorVars, analyzerVars, concVars, serviceVars>>

RepeatNext == ScoreCall \/ ScoreReturn \/ Remember

RepeatSpec == RepeatInit /\ [][RepeatNext]_vars

-----------------------------------------------------------------------------
(* The caller of the detector *)

\* The longest history the caller collects.
MaxHistory == 5

\* The transactions a history is made of: a dev sell, a trade, a record
\* with no type, a record of an unrecognized type with a non-numeric amount,
\* and liquidity removals with no amount, with amounts on both sides of the
\* threshold, with a negative and with a non-numeric one.
TxRecords ==
    {MkTx(<<"dev_sell">>, <<Number(1000)>>),
     MkTx(<<"buy">>, <<Number(100)>>),
     MkTx(<<>>, <<Number(60)>>),
     MkTx(<<"airdrop">>, <<NotANumber>>),
     MkTx(<<"lp_remove">>, <<>>),
     MkTx(<<"lp_remove">>, <<Number(25)>>),
     MkTx(<<"lp_remove">>, <<Number(60)>>),
     MkTx(<<"lp_remove">>, <<Number(-10)>>),
     MkTx(<<"lp_remove">>, <<NotANumber>>)}

DetectInit ==
    /\ pc = "collecting"
    /\ transaction_history = <<>>
    /\ patterns = InitialPatterns
    /\ raised = FALSE
    /\ analyzer = InitialAnalyzer
    /\ heap = <<>>
    /\ ref = 0
    /\ kept = <<>>
    /\ NoCallers
    /\ factors = EmptyFactors
    /\ passed = EmptyFactors
    /\ contrib = NoPenalties
    /\ score = 0
    /\ result = 0
    /\ memo = <<>>
    /\ between = 0

\* The caller adds the next transaction, in chronological order.
Record ==
    /\ pc = "collecting"
    /\ Len(transaction_history) < MaxHistory
    /\ \E tx \in TxRecords :
          transaction_history' = Append(transaction_history, tx)
    /\ UNCHANGED <<pc, patterns, raised, scorerVars, analyzerVars, concVars, serviceVars>>

\* await analyzer.detect_rug_patterns(transaction_history): the call returns
\* its dict, unless an exception of the try block is not caught.
Detect ==
    /\ pc = "collecting"
    /\ IF Raises(transaction_history) /\ ~Catches(transaction_history)
       THEN /\ pc' = "failed"
            /\ UNCHANGED <<patterns, raised>>
       ELSE /\ pc' = "detected"
            /\ patterns' = detect_rug_patterns(transaction_history)
            /\ raised' = Raises(transaction_history)
    /\ UNCHANGED <<transaction_history, scorerVars, analyzerVars, concVars, serviceVars>>

DetectNext == Record \/ Detect

DetectSpec == DetectInit /\ [][DetectNext]_vars

-----------------------------------------------------------------------------
(* A caller that calls the detector again and again on one analyzer *)

\* How many calls are made on the analyzer.
MaxCalls == 3

DevSell == MkTx(<<"dev_sell">>, <<Number(1000)>>)

\* The histories the repeating caller passes.
AnalyzerHistories ==
    {<<>>,
     <<MkTx(<<"buy">>, <<Number(100)>>)>>,
     <<MkTx(<<"lp_remove">>, <<Number(60)>>)>>,
     <<MkTx(<<"lp_remove">>, <<NotANumber>>)>>,
     <<DevSell, DevSell, DevSell, DevSell>>,
     <<DevSell, DevSell, DevSell, DevSell, MkTx(<<"lp_remove">>, <<Number(60)>>)>>,
     <<DevSell, DevSell, DevSell, DevSell, MkTx(<<"lp_remove">>, <<NotANumber>>)>>}

AnalyzerInit ==
    /\ pc = "idle"
    /\ analyzer = InitialAnalyzer
    /\ heap = <<>>
    /\ ref = 0
    /\ kept = <<>>
    /\ NoCallers
    /\ transaction_history = <<>>
    /\ patterns = InitialPatterns
    /\ raised = FALSE
    /\ factors = EmptyFactors
    /\ passed = EmptyFactors
    /\ contrib = NoPenalties
    /\ score = 0
    /\ result = 0
    /\ memo = <<>>
    /\ between = 0

\* Defect: patterns is one dict shared by all calls (created once, outside
\* the function), so a call goes on from what the last call left in it.
AnalyzerCallSharedDict ==
    /\ pc \in {"idle", "detected"}
    /\ ref < MaxCalls
    /\ \E h \in AnalyzerHistories :
          LET start == IF heap = <<>> THEN InitialPatterns ELSE heap[1]
              afterDevSells == DevSellCheck(start, h)
              filled  == IF Raises(h) THEN afterDevSells
                         ELSE SetConfidence(LpRemoveCheck(afterDevSells, h))
          IN  /\ transaction_history' = h
              /\ heap' = <<filled>>
              /\ patterns' = filled
              /\ raised' = Raises(h)
    /\ ref' = 1
    /\ pc' = "detected"
    /\ UNCHANGED <<analyzer, kept, scorerVars, concVars, serviceVars>>

\* One more call of detect_rug_patterns on the same analyzer: it creates a
\* new dict (line 187), fills it and returns it; self is not written.
AnalyzerCall ==
    /\ pc \in {"idle", "detected"}
    /\ Len(heap) < MaxCalls
    /\ \E h \in AnalyzerHistories :
          /\ transaction_history' = h
          /\ heap' = Append(heap, detect_rug_patterns(h))
          /\ patterns' = detect_rug_patterns(h)
          /\ raised' = Raises(h)
    /\ ref' = Len(heap) + 1
    /\ pc' = "detected"
    /\ UNCHANGED <<analyzer, kept, scorerVars, concVars, serviceVars>>

\* The caller holds on to the dict it was returned.
Keep ==
    /\ pc = "detected"
    /\ kept' = <<ref, heap[ref], transaction_history>>
    /\ UNCHANGED <<pc, analyzer, heap, ref, scorerVars, detectorVars, concVars, serviceVars>>

AnalyzerNext == AnalyzerCall \/ Keep

AnalyzerSpec == AnalyzerInit /\ [][AnalyzerNext]_vars

-----------------------------------------------------------------------------
(* Callers that call the scorer and the detector at the same time *)

ConcJobs ==
    {[kind |-> "score", factors |-> f, history |-> <<>>] :
        f \in {MkFactors(<<TRUE>>, <<TRUE>>, <<1000>>, <<10>>, <<2>>, <<TRUE>>,
                         <<100000>>),
               MkFactors(<<FALSE>>, <<FALSE>>, <<10>>, <<95>>, <<30>>, <<FALSE>>,
                         <<100>>),
               MkFactors(<<TRUE>>, <<>>, <<50>>, <<61>>, <<>>, <<TRUE>>, <<>>)}}
    \cup
    {[kind |-> "detect", factors |-> EmptyFactors, history |-> h] :
        h \in {<<DevSell, DevSell, DevSell, DevSell>>,
               <<DevSell, DevSell, DevSell, DevSell,
                 MkTx(<<"lp_remove">>, <<Number(60)>>)>>,
               <<DevSell, DevSell, DevSell, DevSell,
                 MkTx(<<"lp_remove">>, <<NotANumber>>)>>,
               <<MkTx(<<"lp_remove">>, <<Number(25)>>),
                 MkTx(<<"buy">>, <<Number(100)>>)>>}}

\* Every caller has made its call; no statement has run yet.
ConcInit ==
    /\ pc = "concurrent"
    /\ job \in [Callers -> ConcJobs]
    /\ cpc = [c \in Callers |-> 1]
    /\ frame = [c \in Callers |-> NoLocals]
    /\ out = [c \in Callers |-> NoOut]
    /\ loop = NoLoop
    /\ NoService
    /\ analyzer = InitialAnalyzer
    /\ heap = <<>>
    /\ ref = 0
    /\ kept = <<>>
    /\ transaction_history = <<>>
    /\ patterns = InitialPatterns
    /\ raised = FALSE
    /\ factors = EmptyFactors
    /\ passed = EmptyFactors
    /\ contrib = NoPenalties
    /\ score = 0
    /\ result = 0
    /\ memo = <<>>
    /\ between = 0

\* What the statement at position i of calculate_risk_score adds to score.
ScoreStatement(i, f) ==
    CASE i = 2 -> MintPenalty(f)
      [] i = 3 -> FreezePenalty(f)
      [] i = 4 -> HolderPenalty(f)
      [] i = 5 -> Top10Penalty(f)
      [] i = 6 -> DevPenalty(f)
      [] i = 7 -> LockPenalty(f)
      [] i = 8 -> LiquidityPenalty(f)

\* Caller c runs the next statement of calculate_risk_score:
\* 1 is score = 0.0, 2 to 8 the penalties, 9 the return.
ScoreStep(c) ==
    /\ job[c].kind = "score"
    /\ cpc[c] \in 1..9
    /\ LET mine == frame[Frame(c)]
       IN  CASE cpc[c] = 1 ->
                  /\ frame' = [frame EXCEPT ![Frame(c)].score = 0]
                  /\ cpc' = [cpc EXCEPT ![c] = 2]
                  /\ UNCHANGED out
             [] cpc[c] \in 2..8 ->
                  /\ frame' = [frame EXCEPT ![Frame(c)].score =
                                   mine.score + ScoreStatement(cpc[c], job[c].factors)]
                  /\ cpc' = [cpc EXCEPT ![c] = cpc[c] + 1]
                  /\ UNCHANGED out
             [] cpc[c] = 9 ->
                  /\ out' = [out EXCEPT ![c].score = Cap(mine.score)]
                  /\ cpc' = [cpc EXCEPT ![c] = 0]
                  /\ UNCHANGED frame
    /\ UNCHANGED <<pc, job, loop, scorerVars, detectorVars, analyzerVars, serviceVars>>

\* Caller c runs the next statement of detect_rug_patterns: 1 creates the
\* dict, 2 and 3 filter the history, 4 is the dev-sell check, 5 the sum and
\* the liquidity check (an exception goes to the return), 6 the confidence,
\* 7 the return.  The checks read the lists that 2 and 3 left in the locals.
DetectStep(c) ==
    /\ job[c].kind = "detect"
    /\ cpc[c] \in 1..7
    /\ LET mine == frame[Frame(c)]
       IN  CASE cpc[c] = 1 ->
                  /\ frame' = [frame EXCEPT ![Frame(c)].patterns = InitialPatterns]
                  /\ cpc' = [cpc EXCEPT ![c] = 2]
                  /\ UNCHANGED out
             [] cpc[c] = 2 ->
                  /\ frame' = [frame EXCEPT ![Frame(c)].dev_sells =
                                   dev_sells(job[c].history)]
                  /\ cpc' = [cpc EXCEPT ![c] = 3]
                  /\ UNCHANGED out
             [] cpc[c] = 3 ->
                  /\ frame' = [frame EXCEPT ![Frame(c)].lp_removes =
                                   lp_removes(job[c].history)]
                  /\ cpc' = [cpc EXCEPT ![c] = 4]
                  /\ UNCHANGED out
             [] cpc[c] = 4 ->
                  /\ frame' = [frame EXCEPT ![Frame(c)].patterns =
                                   DevSellCheck(mine.patterns, mine.dev_sells)]
                  /\ cpc' = [cpc EXCEPT ![c] = 5]
                  /\ UNCHANGED out
             [] cpc[c] = 5 ->
                  IF Raises(mine.lp_removes)
                  THEN /\ cpc' = [cpc EXCEPT ![c] = 7]
                       /\ UNCHANGED <<frame, out>>
                  ELSE /\ frame' = [frame EXCEPT ![Frame(c)].patterns =
                                        LpRemoveCheck(mine.patterns, mine.lp_removes)]
                       /\ cpc' = [cpc EXCEPT ![c] = 6]
                       /\ UNCHANGED out
             [] cpc[c] = 6 ->
                  /\ frame' = [frame EXCEPT ![Frame(c)].patterns =
                                   SetConfidence(mine.patterns)]
                  /\ cpc' = [cpc EXCEPT ![c] = 7]
                  /\ UNCHANGED out
             [] cpc[c] = 7 ->
                  /\ out' = [out EXCEPT ![c].patterns = mine.patterns]
                  /\ cpc' = [cpc EXCEPT ![c] = 0]
                  /\ UNCHANGED frame
    /\ UNCHANGED <<pc, job, loop, scorerVars, detectorVars, analyzerVars, serviceVars>>

ConcNext == \E c \in Callers : ScoreStep(c) \/ DetectStep(c)

ConcSpec == ConcInit /\ [][ConcNext]_vars

-----------------------------------------------------------------------------
(* Histories with float amounts *)

\* The longest history with float amounts.
MaxOrderLen == 5

\* A dev sell, a trade, liquidity removals whose float amounts are summed
\* with rounding near the threshold, and liquidity removals with a
\* negative and with a non-numeric amount.
OrderRecords ==
    {MkTx(<<"dev_sell">>, <<Number(1000)>>),
     MkTx(<<"buy">>, <<Float(12)>>),
     MkTx(<<"lp_remove">>, <<Float(1)>>),
     MkTx(<<"lp_remove">>, <<Float(2)>>),
     MkTx(<<"lp_remove">>, <<Float(48)>>),
     MkTx(<<"lp_remove">>, <<Number(-10)>>),
     MkTx(<<"lp_remove">>, <<NotANumber>>)}

\* The caller adds the next transaction.
OrderRecord ==
    /\ pc = "collecting"
    /\ Len(transaction_history) < MaxOrderLen
    /\ \E tx \in OrderRecords :
          transaction_history' = Append(transaction_history, tx)
    /\ UNCHANGED <<pc, patterns, raised, scorerVars, analyzerVars, concVars, serviceVars>>

OrderNext == OrderRecord \/ Detect

OrderSpec == DetectInit /\ [][OrderNext]_vars

-----------------------------------------------------------------------------
(* analyze_token_contract *)

\* An analysis dict.  A red flag is the sequence of the parts its string
\* is made of, so that f"Analysis failed: {str(e)}" is two parts.
Analysis(risk, flags, signals, recommendation, reasoning) ==
    [risk_score |-> risk, red_flags |-> flags, positive_signals |-> signals,
     recommendation |-> recommendation, reasoning |-> reasoning]

\* The texts the LLM replies with: two JSON objects, prose, a JSON object
\* after a sentence of prose, and the empty text.
SafeReply == "{\"risk_score\": 25, \"red_flags\": [], \"positive_signals\": [\"Authorities revoked\"], \"recommendation\": \"BUY\", \"reasoning\": \"Looks safe\"}"
RugReply == "{\"risk_score\": 100, \"red_flags\": [\"Honeypot\"], \"positive_signals\": [], \"recommendation\": \"AVOID\", \"reasoning\": \"Cannot sell\"}"
ProseReply == "Risk Score: 80. Avoid this token."
PrefacedReply == "Here is the analysis: {\"risk_score\": 25}"

ReplyTexts == {SafeReply, RugReply, ProseReply, PrefacedReply, ""}

\* json.loads(text): <<value>> when text is a JSON document, <<>> when it
\* raises JSONDecodeError.
JsonLoads(text) ==
    CASE text = SafeReply ->
           <<Analysis(25, <<>>, <<"Authorities revoked">>, "BUY", "Looks safe")>>
      [] text = RugReply ->
           <<Analysis(100, <<<<"Honeypot">>>>, <<>>, "AVOID", "Cannot sell")>>
      [] OTHER -> <<>>

\* The content of the first choice of a response: None, or a text.
NoContent == <<"none">>
Content(text) == <<"text", text>>

\* response.choices: no choice at all, or one choice with its content.
Replies == {<<>>} \cup {<<NoContent>>} \cup {<<Content(t)>> : t \in ReplyTexts}

\* What the awaited request raises: errors of the API client, which derive
\* from Exception, and the cancellation of the waiting task, which derives
\* from BaseException only.
LlmErrors ==
    {[class |-> "Exception", message |-> "API Error"],
     [class |-> "APITimeoutError", message |-> "Request timed out."],
     [class |-> "RateLimitError", message |-> ""],
     [class |-> "CancelledError", message |-> ""]}

\* Defect: a handler for the errors of the API client only.
ExceptionClassesApiOnly == {"APITimeoutError", "RateLimitError"}

\* The classes that "except Exception" catches.
ExceptionClasses ==
    {"Exception", "APITimeoutError", "RateLimitError", "IndexError", "TypeError"}

\* Lines 83-89.
FallbackAnalysis(text) ==
    Analysis(50, <<<<"Unable to parse analysis">>>>, <<>>, "HOLD", text)

\* Lines 95-101.
FailedAnalysis(message) ==
    Analysis(100, <<<<"Analysis failed: ", message>>>>, <<>>, "AVOID",
             "Could not complete analysis")

\* The exception lines 76-80 raise on a response, "" when they raise none:
\* choices[0] of an empty list, and json.loads of None, which is a
\* TypeError and no JSONDecodeError.
ParseError(reply) ==
    IF reply = <<>> THEN [class |-> "IndexError", message |-> "list index out of range"]
    ELSE IF reply[1] = NoContent
         THEN [class |-> "TypeError",
               message |-> "the JSON object must be str, bytes or bytearray, not NoneType"]
         ELSE [class |-> "", message |-> ""]

\* Lines 76-91 on a response that raises nothing.
ParsedAnalysis(reply) ==
    LET text == reply[1][2]
    IN  IF JsonLoads(text) # <<>> THEN JsonLoads(text)[1] ELSE FallbackAnalysis(text)

\* How many calls of analyze_token_contract the caller makes.
MaxAnalyses == 3

\* liquidity_data.get('total_usd', 0): absent, two numbers, and a value
\* that the format spec ",.2f" rejects (None, a string).
TotalUsds == {Number(0), Number(50000), Float(12), NotANumber}

ContractInit ==
    /\ pc = "idle"
    /\ analyzer = InitialAnalyzer
    /\ heap = <<>>
    /\ ref = 0
    /\ kept = <<>>
    /\ NoCallers
    /\ transaction_history = <<>>
    /\ patterns = InitialPatterns
    /\ raised = FALSE
    /\ factors = EmptyFactors
    /\ passed = EmptyFactors
    /\ contrib = NoPenalties
    /\ score = 0
    /\ result = 0
    /\ memo = <<>>
    /\ between = 0

contractFrame ==
    <<scorerVars, detectorVars, analyzerVars, concVars, bot, now, tasks, sent>>

\* await analyzer.analyze_token_contract(contract_data, holder_data,
\* liquidity_data): the call begins.
AnalyzeCall ==
    /\ pc \in {"idle", "analysed", "failed"}
    /\ contract.calls < MaxAnalyses
    /\ \E usd \in TotalUsds :
          contract' = [NoContract EXCEPT !.calls = contract.calls + 1,
                                         !.total_usd = usd]
    /\ pc' = "prompting"
    /\ UNCHANGED contractFrame

\* Lines 36-63, outside the try: the f-string formats total_usd with
\* ",.2f", which raises on a value that is no number.
BuildPrompt ==
    /\ pc = "prompting"
    /\ IF IsNumber(contract.total_usd)
       THEN /\ pc' = "awaiting"
            /\ UNCHANGED contract
       ELSE /\ pc' = "failed"
            /\ contract' = [contract EXCEPT !.error = "TypeError"]
    /\ UNCHANGED contractFrame

\* The awaited request returns a response: lines 76-91, and lines 93-101
\* when they raise.
LlmReturns ==
    /\ pc = "awaiting"
    /\ \E reply \in Replies :
          LET e == ParseError(reply)
          IN  IF e.class = ""
              THEN /\ contract' = [contract EXCEPT !.llm = <<"response", reply>>,
                                       !.analysis = <<ParsedAnalysis(reply)>>]
                   /\ pc' = "analysed"
              ELSE IF e.class \in ExceptionClasses
              THEN /\ contract' = [contract EXCEPT !.llm = <<"response", reply>>,
                                       !.analysis = <<FailedAnalysis(e.message)>>]
                   /\ pc' = "analysed"
              ELSE /\ contract' = [contract EXCEPT !.llm = <<"response", reply>>,
                                       !.error = e.class]
                   /\ pc' = "failed"
    /\ UNCHANGED contractFrame

\* The awaited request raises: lines 93-101 when the except clause
\* catches the exception, otherwise it reaches the caller.
LlmRaises ==
    /\ pc = "awaiting"
    /\ \E e \in LlmErrors :
          IF e.class \in ExceptionClasses
          THEN /\ contract' = [contract EXCEPT !.llm = <<"raised", e>>,
                                   !.analysis = <<FailedAnalysis(e.message)>>]
               /\ pc' = "analysed"
          ELSE /\ contract' = [contract EXCEPT !.llm = <<"raised", e>>, !.error = e.class]
               /\ pc' = "failed"
    /\ UNCHANGED contractFrame

ContractNext == AnalyzeCall \/ BuildPrompt \/ LlmReturns \/ LlmRaises

ContractSpec == ContractInit /\ [][ContractNext]_vars

-----------------------------------------------------------------------------
(* SolyTwitterBot.post_tweet *)

\* The clock advances in steps of TickMinutes, and is followed until the
\* minimum interval has passed since the last tweet: the interval test
\* gives the same answer ever after.
TickMinutes == 5

\* How many texts wait in tweet_queue at most.
MaxQueue == 1

\* The text a coroutine posts: an update or an alert.
TextOf(t) == t

BotInit ==
    /\ pc = "bot"
    /\ analyzer = InitialAnalyzer
    /\ heap = <<>>
    /\ ref = 0
    /\ kept = <<>>
    /\ NoCallers
    /\ transaction_history = <<>>
    /\ patterns = InitialPatterns
    /\ raised = FALSE
    /\ factors = EmptyFactors
    /\ passed = EmptyFactors
    /\ contrib = NoPenalties
    /\ score = 0
    /\ result = 0
    /\ memo = <<>>
    /\ between = 0

botFrame == <<pc, scorerVars, detectorVars, analyzerVars, concVars, contract>>

\* start(): is_running = True, and the posting coroutines are created.
BotStart ==
    /\ ~bot.is_running
    /\ bot' = [bot EXCEPT !.is_running = TRUE]
    /\ UNCHANGED <<now, tasks, sent, botFrame>>

\* stop(): is_running = False.
BotStop ==
    /\ bot.is_running
    /\ bot' = [bot EXCEPT !.is_running = FALSE]
    /\ UNCHANGED <<now, tasks, sent, botFrame>>

\* Time passes.
Tick ==
    /\ bot.last_tweet_time # <<>>
    /\ now - bot.last_tweet_time[1] < min_tweet_interval_minutes
    /\ now' = now + TickMinutes
    /\ UNCHANGED <<bot, tasks, sent, botFrame>>

\* A coroutine calls post_tweet(text): _post_update from the loop of
\* _post_scheduled_updates, which runs while is_running, or
\* post_token_alert.
PostCall(t) ==
    /\ tasks[t].at = "idle"
    /\ t = "update" => bot.is_running
    /\ tasks' = [tasks EXCEPT ![t] = [at |-> "called", returned |-> <<>>, why |-> ""]]
    /\ UNCHANGED <<bot, now, sent, botFrame>>

\* datetime.utcnow() - self.last_tweet_time, in seconds.
SecondsSinceLast == (now - bot.last_tweet_time[1]) * 60

\* Defect: the interval rejection not queueing the text.
QueuedDropped(queue, text) == queue

\* self.tweet_queue.append(text)
Queued(queue, text) == Append(queue, text)

\* Lines 74-92: the two checks, up to the await of create_tweet.
PostCheck(t) ==
    /\ tasks[t].at = "called"
    /\ IF bot.tweets_today >= max_tweets_per_day
       THEN /\ tasks' = [tasks EXCEPT ![t] =
                            [at |-> "idle", returned |-> <<FALSE>>, why |-> "limit"]]
            /\ UNCHANGED bot
       ELSE IF /\ bot.last_tweet_time # <<>>
               /\ SecondsSinceLast < min_tweet_interval_minutes * 60
       THEN /\ Len(bot.tweet_queue) < MaxQueue
            /\ bot' = [bot EXCEPT !.tweet_queue = Queued(@, TextOf(t))]
            /\ tasks' = [tasks EXCEPT ![t] =
                            [at |-> "idle", returned |-> <<FALSE>>, why |-> "interval"]]
       ELSE /\ tasks' = [tasks EXCEPT ![t].at = "requested"]
            /\ UNCHANGED bot
    /\ UNCHANGED <<now, sent, botFrame>>

\* The posting client posts the tweet of a suspended call.
ClientPosts(t) ==
    /\ tasks[t].at = "requested"
    /\ sent' = sent + 1
    /\ tasks' = [tasks EXCEPT ![t].at = "posted"]
    /\ UNCHANGED <<bot, now, botFrame>>

\* Lines 94-98: the call resumes after the tweet was posted.
PostResume(t) ==
    /\ tasks[t].at = "posted"
    /\ bot' = [bot EXCEPT !.tweets_today = @ + 1, !.last_tweet_time = <<now>>]
    /\ tasks' = [tasks EXCEPT ![t] =
                    [at |-> "idle", returned |-> <<TRUE>>, why |-> "posted"]]
    /\ UNCHANGED <<now, sent, botFrame>>

\* Lines 100-102: create_tweet raises, nothing was posted.
PostFails(t) ==
    /\ tasks[t].at = "requested"
    /\ tasks' = [tasks EXCEPT ![t] =
                    [at |-> "idle", returned |-> <<FALSE>>, why |-> "error"]]
    /\ UNCHANGED <<bot, now, sent, botFrame>>

BotNext ==
    \/ BotStart
    \/ BotStop
    \/ Tick
    \/ \E t \in Tasks :
          PostCall(t) \/ PostCheck(t) \/ ClientPosts(t) \/ PostResume(t) \/ PostFails(t)

BotSpec == BotInit /\ [][BotNext]_vars

-----------------------------------------------------------------------------
(* One call followed record by record *)

\* The longest history of a call that is followed record by record.
MaxLoopLen == 3

RECURSIVE SeqsUpTo(_, _)
SeqsUpTo(S, n) ==
    IF n = 0 THEN {<<>>}
    ELSE LET shorter == SeqsUpTo(S, n - 1)
         IN  shorter \cup {Append(q, x) : q \in shorter, x \in S}

LoopJobs ==
    {j \in ConcJobs : j.kind = "score"}
    \cup
    {[kind |-> "detect", factors |-> EmptyFactors, history |-> h] :
        h \in SeqsUpTo(TxRecords, MaxLoopLen)}

LoopInit ==
    /\ pc = "concurrent"
    /\ \E j \in LoopJobs : job = [c \in Callers |-> IF c = 1 THEN j ELSE NoJob]
    /\ cpc = [c \in Callers |-> IF c = 1 THEN 1 ELSE 0]
    /\ frame = [c \in Callers |-> NoLocals]
    /\ out = [c \in Callers |-> NoOut]
    /\ loop = NoLoop
    /\ NoService
    /\ analyzer = InitialAnalyzer
    /\ heap = <<>>
    /\ ref = 0
    /\ kept = <<>>
    /\ transaction_history = <<>>
    /\ patterns = InitialPatterns
    /\ raised = FALSE
    /\ factors = EmptyFactors
    /\ passed = EmptyFactors
    /\ contrib = NoPenalties
    /\ score = 0
    /\ result = 0
    /\ memo = <<>>
    /\ between = 0

\* Defect: an iteration that does not move on to the next record.
NextIndexStuck(i) == i

\* The iterator of a for clause moves on to the next element.
NextIndex(i) == i + 1

\* The next step of detect_rug_patterns in the only call: 1 creates the
\* dict; 2 and 3 are the comprehensions of lines 201 and 202, one record a
\* step; 4 is the dev-sell check; 5 the test of line 208; 6 the sum of line
\* 209, one record a step (an amount that cannot be added raises, and the
\* except clause leads to the return); 7 the test of line 210; 8 the
\* confidence; 9 the return.
LoopStep ==
    /\ job[1].kind = "detect"
    /\ cpc[1] \in 1..9
    /\ LET h == job[1].history
           mine == frame[1]
           goto(n) == cpc' = [cpc EXCEPT ![1] = n]
           step == [loop EXCEPT !.steps = @ + 1]
           visit == [step EXCEPT !.i = NextIndex(@), !.visits = @ + 1]
       IN  CASE cpc[1] = 1 ->
                  /\ frame' = [frame EXCEPT ![1].patterns = InitialPatterns]
                  /\ loop' = [step EXCEPT !.i = 1]
                  /\ goto(2)
                  /\ UNCHANGED out
             [] cpc[1] = 2 /\ loop.i <= Len(h) ->
                  /\ frame' = [frame EXCEPT ![1].dev_sells =
                                   IF HasType(h[loop.i], "dev_sell")
                                   THEN Append(@, h[loop.i]) ELSE @]
                  /\ loop' = visit
                  /\ UNCHANGED <<cpc, out>>
             [] cpc[1] = 2 /\ loop.i > Len(h) ->
                  /\ loop' = [step EXCEPT !.i = 1]
                  /\ goto(3)
                  /\ UNCHANGED <<frame, out>>
             [] cpc[1] = 3 /\ loop.i <= Len(h) ->
                  /\ frame' = [frame EXCEPT ![1].lp_removes =
                                   IF HasType(h[loop.i], "lp_remove")
                                   THEN Append(@, h[loop.i]) ELSE @]
                  /\ loop' = visit
                  /\ UNCHANGED <<cpc, out>>
             [] cpc[1] = 3 /\ loop.i > Len(h) ->
                  /\ loop' = step
                  /\ goto(4)
                  /\ UNCHANGED <<frame, out>>
             [] cpc[1] = 4 ->
                  /\ frame' = [frame EXCEPT ![1].patterns =
                                   DevSellCheck(@, mine.dev_sells)]
                  /\ loop' = step
                  /\ goto(5)
                  /\ UNCHANGED out
             [] cpc[1] = 5 ->
                  /\ loop' = [step EXCEPT !.i = 1, !.total = Number(0)]
                  /\ goto(IF Len(mine.lp_removes) > 0 THEN 6 ELSE 8)
                  /\ UNCHANGED <<frame, out>>
             [] cpc[1] = 6 /\ loop.i <= Len(mine.lp_removes) ->
                  LET amount == AmountOf(mine.lp_removes[loop.i])
                  IN  IF IsNumber(amount)
                      THEN /\ loop' = [visit EXCEPT !.total = Add(@, amount)]
                           /\ UNCHANGED <<cpc, frame, out>>
                      ELSE /\ loop' = [step EXCEPT !.visits = @ + 1]
                           /\ goto(9)
                           /\ UNCHANGED <<frame, out>>
             [] cpc[1] = 6 /\ loop.i > Len(mine.lp_removes) ->
                  /\ loop' = step
                  /\ goto(7)
                  /\ UNCHANGED <<frame, out>>
             [] cpc[1] = 7 ->
                  /\ frame' = [frame EXCEPT ![1].patterns =
                                   IF loop.total[2] > 50
                                   THEN [@ EXCEPT !.detected_patterns =
                                             Append(@, "Significant liquidity removal"),
                                         !.risk_level = "HIGH",
                                         !.is_suspicious = TRUE]
                                   ELSE @]
                  /\ loop' = step
                  /\ goto(8)
                  /\ UNCHANGED out
             [] cpc[1] = 8 ->
                  /\ frame' = [frame EXCEPT ![1].patterns = SetConfidence(@)]
                  /\ loop' = step
                  /\ goto(9)
                  /\ UNCHANGED out
             [] cpc[1] = 9 ->
                  /\ out' = [out EXCEPT ![1].patterns = mine.patterns]
                  /\ loop' = step
                  /\ goto(0)
                  /\ UNCHANGED frame
    /\ UNCHANGED <<pc, job, scorerVars, detectorVars, analyzerVars, serviceVars>>

LoopNext == ScoreStep(1) \/ LoopStep

\* A call that has started runs on: nothing in either function waits.
LoopSpec == LoopInit /\ [][LoopNext]_vars /\ WF_vars(LoopNext)

-----------------------------------------------------------------------------
(* Vocabulary of the properties *)

Returned == pc = "scored"

\* A field as the scorer reads it.
Flag(f, k) == Get(f, k, FALSE)
Num(f, k)  == Get(f, k, 0)

\* The mapping f with key k set to v.
Put(f, k, v) == [x \in DOMAIN f \cup {k} |-> IF x = k THEN v ELSE f[x]]

\* The penalty table of the design, condition by condition.
TableHolder(h) == IF h < 50 THEN 15 ELSE IF h < 100 THEN 10 ELSE 0
TableTop10(t)  == IF t > 80 THEN 20 ELSE IF t > 60 THEN 15 ELSE IF t > 40 THEN 10 ELSE 0
TableDev(d)    == IF d > 20 THEN 15 ELSE IF d > 10 THEN 10 ELSE 0

TableSum(f) ==
      (IF Flag(f, "mint_authority_revoked") THEN 0 ELSE 30)
    + (IF Flag(f, "freeze_authority_revoked") THEN 0 ELSE 20)
    + TableHolder(Num(f, "holder_count"))
    + TableTop10(Num(f, "top_10_holdings_pct"))
    + TableDev(Num(f, "dev_holdings_pct"))
    + (IF Flag(f, "liquidity_locked") THEN 0 ELSE 20)
    + (IF Num(f, "liquidity_usd") < 5000 THEN 10 ELSE 0)

-----------------------------------------------------------------------------
(* C1 *)

\* C1: whatever the factors, the returned score v satisfies 0 <= v <= 100.
C1_Bounded == Returned => (0 <= result /\ result <= 100)

\* A call whose uncapped sum exceeds 100 has returned.
C1_Witness == Returned /\ score > 100 /\ result = 100

-----------------------------------------------------------------------------
(* C2 *)

\* C2: the returned score is min(S, 100) for the sum S of the table
\* penalties; holder_count 50 adds 10 and 49 adds 15; the boundary values
\* 100, 80, 60, 40, 20, 10 and 5000 fall in the less severe bucket.
C2_TableSum ==
    Returned =>
        /\ result = Min(TableSum(factors), 100)
        /\ Num(factors, "holder_count") = 50 => contrib.holder = 10
        /\ Num(factors, "holder_count") = 49 => contrib.holder = 15
        /\ Num(factors, "holder_count") = 100 => contrib.holder = 0
        /\ Num(factors, "top_10_holdings_pct") = 80 => contrib.top10 = 15
        /\ Num(factors, "top_10_holdings_pct") = 60 => contrib.top10 = 10
        /\ Num(factors, "top_10_holdings_pct") = 40 => contrib.top10 = 0
        /\ Num(factors, "dev_holdings_pct") = 20 => contrib.dev = 10
        /\ Num(factors, "dev_holdings_pct") = 10 => contrib.dev = 0
        /\ Num(factors, "liquidity_usd") = 5000 => contrib.liquidity = 0

\* A call with every numeric field on a boundary has returned, uncapped.
C2_Witness ==
    /\ Returned
    /\ Num(factors, "holder_count") = 50
    /\ Num(factors, "top_10_holdings_pct") = 80
    /\ Num(factors, "dev_holdings_pct") = 20
    /\ Num(factors, "liquidity_usd") = 5000
    /\ result = 35

-----------------------------------------------------------------------------
(* C3 *)

\* The mappings that differ from f in one field, changed in its
\* risk-increasing direction.
Riskier(f) ==
       {Put(f, k, FALSE) :
            k \in {x \in {"mint_authority_revoked", "freeze_authority_revoked",
                           "liquidity_locked"} : Flag(f, x)}}
    \cup {Put(f, "holder_count", v) :
            v \in {x \in HolderCounts : x < Num(f, "holder_count")}}
    \cup {Put(f, "liquidity_usd", v) :
            v \in {x \in LiquidityUsds : x < Num(f, "liquidity_usd")}}
    \cup {Put(f, "top_10_holdings_pct", v) :
            v \in {x \in Top10Pcts : x > Num(f, "top_10_holdings_pct")}}
    \cup {Put(f, "dev_holdings_pct", v) :
            v \in {x \in DevPcts : x > Num(f, "dev_holdings_pct")}}

\* C3: changing one field in its risk-increasing direction never lowers the
\* score.
C3_Monotone ==
    Returned => \A g \in Riskier(factors) : calculate_risk_score(g) >= result

\* A call has returned whose input has a riskier variant with a strictly
\* higher score and another with the same score.
C3_Witness ==
    /\ Returned
    /\ \E g \in Riskier(factors) : calculate_risk_score(g) > result
    /\ \E g \in Riskier(factors) : calculate_risk_score(g) = result

-----------------------------------------------------------------------------
(* C4 *)

\* C4: each bucketed factor adds the penalty of at most one tier, the most
\* severe one that matches: holder_count adds 0, 10 or 15, the top-10
\* percentage 0, 10, 15 or 20 (85 adds exactly 20), dev holdings 0, 10 or 15.
C4_TierExclusive ==
    Returned =>
        /\ contrib.holder \in {0, 10, 15}
        /\ contrib.top10 \in {0, 10, 15, 20}
        /\ contrib.dev \in {0, 10, 15}
        /\ contrib.holder = TableHolder(Num(factors, "holder_count"))
        /\ contrib.top10 = TableTop10(Num(factors, "top_10_holdings_pct"))
        /\ contrib.dev = TableDev(Num(factors, "dev_holdings_pct"))
        /\ Num(factors, "top_10_holdings_pct") = 85 => contrib.top10 = 20

\* A call with a top-10 percentage of 85, which matches all three tiers.
C4_Witness ==
    /\ Returned
    /\ "top_10_holdings_pct" \in DOMAIN factors
    /\ factors["top_10_holdings_pct"] = 85
    /\ contrib.top10 = 20

-----------------------------------------------------------------------------
(* C5 *)

AllBad ==
    MkFactors(<<FALSE>>, <<FALSE>>, <<10>>, <<95>>, <<30>>, <<FALSE>>, <<100>>)

\* C5: the uncapped sum never exceeds 130; an uncapped sum of 100 or more
\* returns exactly 100; the all-bad input has raw sum 130 and score 100.
C5_RawSumAndCap ==
    Returned =>
        /\ score <= 130
        /\ score >= 100 => result = 100
        /\ factors = AllBad => (score = 130 /\ result = 100)

\* The all-bad input has been scored.
C5_Witness == Returned /\ factors = AllBad /\ score = 130

-----------------------------------------------------------------------------
(* C6 *)

Clean(f) ==
    /\ Flag(f, "mint_authority_revoked")
    /\ Flag(f, "freeze_authority_revoked")
    /\ Num(f, "holder_count") >= 100
    /\ Num(f, "top_10_holdings_pct") <= 40
    /\ Num(f, "dev_holdings_pct") <= 10
    /\ Flag(f, "liquidity_locked")
    /\ Num(f, "liquidity_usd") >= 5000

AllClean ==
    MkFactors(<<TRUE>>, <<TRUE>>, <<1000>>, <<10>>, <<2>>, <<TRUE>>, <<100000>>)

\* C6: the score is 0 exactly when no penalty condition holds; no factor
\* adds a negative amount, and every other input scores at least 10.
C6_ZeroIffClean ==
    Returned =>
        /\ result = 0 <=> Clean(factors)
        /\ \A k \in DOMAIN contrib : contrib[k] >= 0
        /\ ~Clean(factors) => result >= 10

\* The all-clean input has been scored 0.
C6_Witness == Returned /\ factors = AllClean /\ result = 0

-----------------------------------------------------------------------------
(* C7 *)

Clamped(x, lo, hi) == IF x < lo THEN lo ELSE IF x > hi THEN hi ELSE x

\* f with every present numeric field clamped into its documented range:
\* percentages into [0, 100], holder_count and liquidity_usd to >= 0.
Clamp(f) ==
    [k \in DOMAIN f |->
        IF k \in {"top_10_holdings_pct", "dev_holdings_pct"}
            THEN Clamped(f[k], 0, 100)
        ELSE IF k \in {"holder_count", "liquidity_usd"}
            THEN (IF f[k] < 0 THEN 0 ELSE f[k])
        ELSE f[k]]

\* C7: a call with an out-of-range numeric field returns, and returns the
\* score of the same input with the field clamped into its range.
C7_ClampEquivalent ==
    /\ pc = "scoring" => ENABLED ScoreReturn
    /\ Returned => result = calculate_risk_score(Clamp(factors))

\* A call with a percentage above 100 and a negative holder count returned.
C7_Witness ==
    /\ Returned
    /\ Num(factors, "top_10_holdings_pct") > 100
    /\ Num(factors, "dev_holdings_pct") < 0
    /\ Num(factors, "holder_count") < 0
    /\ Clamp(factors) # factors

-----------------------------------------------------------------------------
(* C8 *)

\* C8 as stated: what the scorer returns tells the caller which individual
\* penalties fired, so two inputs with the same returned value had the same
\* penalties fire.
C8_BreakdownReturned ==
    Returned =>
        \A g \in Riskier(factors) :
            calculate_risk_score(g) = result => Penalties(g) = contrib

\* C8 amended: only the total is returned, a single number, and it is
\* min(sum of the per-factor penalties of the call, 100).
C8_TotalOnly ==
    Returned =>
        /\ result \in 0..100
        /\ result = Min(contrib.mint + contrib.freeze + contrib.holder
                         + contrib.top10 + contrib.dev + contrib.lock
                         + contrib.liquidity, 100)

\* A returned total that another input with other penalties shares.
C8_Witness ==
    /\ Returned
    /\ \E g \in Riskier(factors) :
            calculate_risk_score(g) = result /\ Penalties(g) # contrib

-----------------------------------------------------------------------------
(* C9 *)

-----------------------------------------------------------------------------
(* C10 *)

Detected == pc = "detected"

InSeq(x, seq) == \E i \in 1..Len(seq) : seq[i] = x

IsLpRemove(tx) == "type" \in DOMAIN tx /\ tx["type"] = "lp_remove"

\* Every lp_remove record of h has a number for amount (none counts as 0).
LpAmountsNumeric(h) ==
    \A i \in 1..Len(h) :
        (IsLpRemove(h[i]) /\ "amount" \in DOMAIN h[i]) => h[i]["amount"][1] = "num"

\* The sum of amount over the lp_remove records of h.
RECURSIVE LpSum(_)
LpSum(h) ==
    IF h = <<>> THEN 0
    ELSE (IF IsLpRemove(Head(h)) /\ "amount" \in DOMAIN Head(h)
          THEN Head(h)["amount"][2] ELSE 0) + LpSum(Tail(h))

TestHistory ==
    <<MkTx(<<"dev_sell">>, <<Number(1000)>>),
      MkTx(<<"dev_sell">>, <<Number(1000)>>),
      MkTx(<<"lp_remove">>, <<Number(60)>>)>>

-----------------------------------------------------------------------------
(* C11 *)

IsDevSell(tx) == "type" \in DOMAIN tx /\ tx["type"] = "dev_sell"

\* The number of dev_sell records of h.
DevSellCount(h) == Cardinality({i \in 1..Len(h) : IsDevSell(h[i])})

DevPattern == "Multiple dev wallet sells detected"
LpPattern == "Significant liquidity removal"

\* C11: "Multiple dev wallet sells detected" is reported exactly when the
\* history has more than 3 dev_sell records; the level is then at least
\* MEDIUM; when it is the only pattern reported the verdict is MEDIUM, not
\* suspicious, confidence 0.3.
C11_DevSells ==
    Detected =>
        /\ InSeq(DevPattern, patterns.detected_patterns)
              <=> DevSellCount(transaction_history) > 3
        /\ InSeq(DevPattern, patterns.detected_patterns)
              => patterns.risk_level \in {"MEDIUM", "HIGH"}
        /\ patterns.detected_patterns = <<DevPattern>>
              => /\ patterns.risk_level = "MEDIUM"
                 /\ patterns.is_suspicious = FALSE
                 /\ patterns.confidence = 3

-----------------------------------------------------------------------------
(* C12 *)

\* C12: every returned verdict has confidence = min(0.3 x number of
\* detected patterns, 1.0), also when an exception was caught on the way.
C12_ConfidenceOfPatterns ==
    Detected =>
        patterns.confidence = Min(3 * Len(patterns.detected_patterns), 10)

-----------------------------------------------------------------------------
(* C13 *)

\* Neither condition of a pattern holds of h.
NoPatternFires(h) ==
    /\ DevSellCount(h) <= 3
    /\ ~(LpAmountsNumeric(h) /\ LpSum(h) > 50)

Quiet ==
    [is_suspicious |-> FALSE, risk_level |-> "LOW",
     detected_patterns |-> <<>>, confidence |-> 0]

\* C13: when no pattern is detected, and for the empty history, the verdict
\* is LOW, not suspicious, no patterns, confidence 0.0.
C13_NoPattern ==
    Detected =>
        /\ NoPatternFires(transaction_history) => patterns = Quiet
        /\ patterns.detected_patterns = <<>> => patterns = Quiet
        /\ transaction_history = <<>> => patterns = Quiet

\* The empty history got its verdict.
C13_Witness ==
    Detected /\ transaction_history = <<>> /\ patterns = Quiet

-----------------------------------------------------------------------------
(* C14 *)

BothFire(h) ==
    /\ DevSellCount(h) > 3
    /\ LpAmountsNumeric(h)
    /\ LpSum(h) > 50

\* C14: when both patterns fire the verdict lists the dev-sell pattern, then
\* the liquidity pattern, with HIGH, suspicious and confidence 0.6, wherever
\* the lp_remove records stand in the history.
C14_BothFire ==
    (Detected /\ BothFire(transaction_history)) =>
        patterns = [is_suspicious |-> TRUE, risk_level |-> "HIGH",
                    detected_patterns |-> <<DevPattern, LpPattern>>,
                    confidence |-> 6]

\* Both fired on a history that starts with the liquidity removal.
C14_Witness ==
    /\ Detected
    /\ BothFire(transaction_history)
    /\ IsLpRemove(transaction_history[1])
    /\ IsDevSell(transaction_history[Len(transaction_history)])
    /\ patterns.detected_patterns = <<DevPattern, LpPattern>>

-----------------------------------------------------------------------------
(* C15 *)

-----------------------------------------------------------------------------
(* C16 *)

IsOther(tx) == ~IsDevSell(tx) /\ ~IsLpRemove(tx)

\* h without its records of other kinds.
WithoutOthers(h) == SelectSeq(h, LAMBDA tx : ~IsOther(tx))

\* Two more records of other kinds, which no history holds yet.
MoreOthers ==
    {MkTx(<<"sell">>, <<Number(50)>>), MkTx(<<"other">>, <<Number(1000)>>)}

\* C16: a history of records of other kinds only is LOW and not suspicious,
\* and the verdict of a history is the verdict of the history without its
\* records of other kinds, so that adding such records, anywhere and in any
\* number, leaves the verdict as it is.
C16_OtherKindsInert ==
    Detected =>
        /\ (\A i \in 1..Len(transaction_history) : IsOther(transaction_history[i]))
              => (patterns.risk_level = "LOW" /\ patterns.is_suspicious = FALSE)
        /\ detect_rug_patterns(WithoutOthers(transaction_history)) = patterns
        /\ \A tx \in MoreOthers :
              detect_rug_patterns(Append(transaction_history, tx)) = patterns

\* A history of a trade, a record with no type and amount 60 and a record
\* of an unrecognized type with a non-numeric amount got its verdict.
C16_Witness ==
    /\ Detected
    /\ Len(transaction_history) >= 3
    /\ \A i \in 1..Len(transaction_history) : IsOther(transaction_history[i])
    /\ \E i \in 1..Len(transaction_history) :
          "type" \notin DOMAIN transaction_history[i]
    /\ \E i \in 1..Len(transaction_history) :
          transaction_history[i] = MkTx(<<"airdrop">>, <<NotANumber>>)
    /\ patterns = Quiet

-----------------------------------------------------------------------------
(* C17 *)

\* C17: the call never raises to the caller and always returns a verdict
\* with its four fields, also for the empty history and for records with
\* no type, no amount or a non-numeric amount.
C17_Total ==
    /\ pc # "failed"
    /\ pc = "collecting" => ENABLED Detect
    /\ Detected =>
          /\ DOMAIN patterns =
                {"is_suspicious", "risk_level", "detected_patterns", "confidence"}
          /\ patterns.is_suspicious \in BOOLEAN
          /\ patterns.risk_level \in {"LOW", "MEDIUM", "HIGH"}
          /\ patterns.confidence \in 0..10
          /\ Len(patterns.detected_patterns) \in 0..2

\* The call returned although sum() raised, on a history that also has a
\* record with no type and a liquidity removal with no amount.
C17_Witness ==
    /\ Detected
    /\ raised
    /\ \E i \in 1..Len(transaction_history) :
          "type" \notin DOMAIN transaction_history[i]
    /\ \E i \in 1..Len(transaction_history) :
          "amount" \notin DOMAIN transaction_history[i]

-----------------------------------------------------------------------------
(* C18 *)

\* C18: when an exception is caught the returned verdict is the worst case,
\* risk_level HIGH and suspicious.
C18_WorstCaseOnException ==
    (Detected /\ raised) =>
        (patterns.risk_level = "HIGH" /\ patterns.is_suspicious = TRUE)

-----------------------------------------------------------------------------
(* C19 *)

\* C19: over any sequence of calls on one analyzer, a call with the history
\* of an earlier call returns a verdict equal to the earlier one, the fields
\* of the analyzer stay as __init__ left them, and a verdict the caller
\* holds is not altered by later calls.
C19_NoHiddenState ==
    /\ analyzer = InitialAnalyzer
    /\ kept # <<>> => heap[kept[1]] = kept[2]
    /\ (Detected /\ kept # <<>> /\ kept[3] = transaction_history)
          => heap[ref] = kept[2]

\* The caller holds a verdict with a pattern; after another call, a third
\* call with the same history returned an equal verdict in a new dict.
C19_Witness ==
    /\ Detected
    /\ kept # <<>>
    /\ kept[2].detected_patterns # <<>>
    /\ ref > kept[1] + 1
    /\ kept[3] = transaction_history
    /\ heap[ref] = kept[2]

-----------------------------------------------------------------------------
(* C20 *)

\* C20: under every interleaving of the statements of concurrent calls,
\* each call returns what it returns when run alone on its own input, and a
\* call that has not run a statement yet finds nothing written in its
\* locals.
C20_Concurrent ==
    \A c \in Callers :
        /\ (cpc[c] = 0 /\ job[c].kind = "score")
              => out[c].score = calculate_risk_score(job[c].factors)
        /\ (cpc[c] = 0 /\ job[c].kind = "detect")
              => out[c].patterns = detect_rug_patterns(job[c].history)
        /\ cpc[c] = 1 => frame[c] = NoLocals

\* Two scorer calls on different inputs interleave: the first has returned
\* its capped total while the second, begun before, is between two of its
\* penalty statements with a partial total in its locals.
C20_Witness ==
    /\ cpc[1] = 0
    /\ job[1].kind = "score"
    /\ out[1].score = 100
    /\ job[2].kind = "score"
    /\ job[2].factors # job[1].factors
    /\ cpc[2] \in 3..8
    /\ frame[2].score > 0

-----------------------------------------------------------------------------
(* C21 *)

\* C21: every call terminates, and a call of detect_rug_patterns takes a
\* number of steps bounded by the length of its history: each record is
\* visited at most three times (once by each comprehension, once by sum),
\* at most nine more steps are taken outside the visits, and the dict
\* returned at the end is the one detect_rug_patterns computes.
C21_Terminates ==
    /\ <>(cpc[1] = 0)
    /\ [](job[1].kind = "detect" =>
            /\ loop.visits <= 3 * Len(job[1].history)
            /\ loop.steps <= 3 * Len(job[1].history) + 9
            /\ cpc[1] = 0 => out[1].patterns = detect_rug_patterns(job[1].history))

\* A call on a history of liquidity removals has returned after visiting
\* every record three times.
C21_Witness ==
    /\ cpc[1] = 0
    /\ job[1].kind = "detect"
    /\ Len(job[1].history) = MaxLoopLen
    /\ loop.visits = 3 * MaxLoopLen
    /\ out[1].patterns.is_suspicious

-----------------------------------------------------------------------------
(* C22 *)

LlmRaised == contract.llm # <<>> /\ contract.llm[1] = "raised"

LlmResponded == contract.llm # <<>> /\ contract.llm[1] = "response"

WorstCase ==
    /\ pc = "analysed"
    /\ contract.analysis # <<>>
    /\ contract.analysis[1].risk_score = 100
    /\ contract.analysis[1].recommendation = "AVOID"
    /\ contract.analysis[1].red_flags # <<>>

\* C22 as stated: whenever the LLM call raises, whatever the exception,
\* nothing reaches the caller and the worst-case analysis is returned.
C22_AnyException == LlmRaised => WorstCase

\* C22, amended: when the LLM call raises an exception of the Exception
\* hierarchy the worst-case analysis is returned, with the message of the
\* exception in its only red flag; the cancellation of the waiting task,
\* which is no Exception, reaches the caller and nothing is returned.
C22_ExceptionsOnly ==
    LlmRaised =>
        LET e == contract.llm[2]
        IN  IF e.class = "CancelledError"
            THEN pc = "failed" /\ contract.analysis = <<>> /\ contract.error = e.class
            ELSE /\ WorstCase
                 /\ contract.analysis[1].red_flags = <<<<"Analysis failed: ", e.message>>>>
                 /\ contract.error = ""

\* The request raised the Exception("API Error") of the test, in a call
\* made after an earlier one, and the call returned.
C22_Witness ==
    /\ LlmRaised
    /\ contract.llm[2] = [class |-> "Exception", message |-> "API Error"]
    /\ contract.calls > 1
    /\ pc = "analysed"

-----------------------------------------------------------------------------
(* C23 *)

\* The reply of a response is valid JSON: it has a text that json.loads
\* accepts.
ValidJson(reply) ==
    /\ reply # <<>>
    /\ reply[1] # NoContent
    /\ JsonLoads(reply[1][2]) # <<>>

\* C23: a call that has ended returned one of three values: the parsed
\* value when the reply is valid JSON; the fallback analysis, with the raw
\* reply as reasoning, when the reply is not valid JSON; the risk_score 100
\* / AVOID analysis when the call failed.  A reply that is not valid JSON
\* never gives the risk_score 100 analysis.
C23_ThreeOutcomes ==
    /\ LlmRaised => WorstCase
    /\ LlmResponded =>
          LET reply == contract.llm[2]
          IN  /\ pc = "analysed"
              /\ contract.analysis # <<>>
              /\ ValidJson(reply) =>
                    contract.analysis = JsonLoads(reply[1][2])
              /\ ~ValidJson(reply) =>
                    /\ contract.analysis[1].risk_score = 50
                    /\ contract.analysis[1].recommendation = "HOLD"
                    /\ contract.analysis[1].red_flags = <<<<"Unable to parse analysis">>>>
                    /\ ~WorstCase

-----------------------------------------------------------------------------
(* C24 *)

\* The default the claim gives to a field: not revoked / not locked for the
\* three flags, 0 for the four numbers.
DefaultOf(k) ==
    IF k \in {"mint_authority_revoked", "freeze_authority_revoked", "liquidity_locked"}
    THEN FALSE
    ELSE 0

Missing(f) == FactorKeys \ DOMAIN f

FilledIn(f) == [k \in FactorKeys |-> IF k \in DOMAIN f THEN f[k] ELSE DefaultOf(k)]

\* C24: the score returned for a mapping equals the score of the mapping
\* with the default filled in for any one missing field, and with the
\* defaults filled in for all of them; the empty mapping scores 95.
C24_MissingIsDefault ==
    Returned =>
        /\ \A k \in Missing(passed) :
              calculate_risk_score(Put(passed, k, DefaultOf(k))) = result
        /\ calculate_risk_score(FilledIn(passed)) = result
        /\ passed = EmptyFactors => result = 95

\* The empty mapping was scored.
C24_Witness ==
    /\ Returned
    /\ Missing(passed) = FactorKeys
    /\ result = 95

-----------------------------------------------------------------------------
(* C25 *)

\* The history h with the records at positions i and i + 1 exchanged.
SwapAt(h, i) ==
    [k \in 1..Len(h) |-> IF k = i THEN h[i + 1] ELSE IF k = i + 1 THEN h[i] ELSE h[k]]

\* C25: the verdict of a history is the verdict of each history obtained
\* from it by exchanging two neighbours, hence of each of its permutations.
C25_OrderInvariant ==
    Detected =>
        \A i \in 1..(Len(transaction_history) - 1) :
            detect_rug_patterns(SwapAt(transaction_history, i)) = patterns

-----------------------------------------------------------------------------
(* C26 *)

\* The amount of a record is a number >= 0 (a record with no amount
\* counts as 0).
NonNegative(tx) == IsNumber(AmountOf(tx)) /\ AmountOf(tx)[2] >= 0

AllNonNegative(h) == \A i \in 1..Len(h) : NonNegative(h[i])

\* LOW < MEDIUM < HIGH
RiskRank(level) ==
    CASE level = "LOW" -> 0
      [] level = "MEDIUM" -> 1
      [] level = "HIGH" -> 2

\* The verdict q is nowhere below the verdict p.
NotBelow(q, p) ==
    /\ RiskRank(q.risk_level) >= RiskRank(p.risk_level)
    /\ \A i \in 1..Len(p.detected_patterns) :
          InSeq(p.detected_patterns[i], q.detected_patterns)
    /\ p.is_suspicious => q.is_suspicious
    /\ q.confidence >= p.confidence

\* The records that can be appended: those of the histories, and a fifth
\* dev sell and a large liquidity removal.
Appended ==
    OrderRecords \cup {MkTx(<<"lp_remove">>, <<Float(60)>>), MkTx(<<"dev_sell">>, <<>>)}

\* C26: for a history whose amounts are all >= 0, appending a record whose
\* amount is >= 0 never lowers the risk level, never removes a detected
\* pattern, never clears is_suspicious and never lowers the confidence.
C26_MonotoneExtension ==
    (Detected /\ AllNonNegative(transaction_history)) =>
        \A tx \in Appended :
            NonNegative(tx) =>
                NotBelow(detect_rug_patterns(Append(transaction_history, tx)), patterns)

\* A history of four dev sells with the dev-sell pattern, to which a fifth
\* dev sell and a liquidity removal can be appended; the removal raises the
\* verdict to HIGH.
C26_Witness ==
    /\ Detected
    /\ AllNonNegative(transaction_history)
    /\ Len(transaction_history) = 4
    /\ patterns.risk_level = "MEDIUM"
    /\ detect_rug_patterns(Append(transaction_history,
                                   MkTx(<<"lp_remove">>, <<Float(60)>>))).risk_level = "HIGH"

-----------------------------------------------------------------------------
(* C27 *)

NoDuplicates(seq) == \A i, j \in 1..Len(seq) : seq[i] = seq[j] => i = j

\* C27: in every verdict returned, is_suspicious, risk_level HIGH and the
\* presence of the liquidity pattern go together; risk_level is MEDIUM
\* exactly when the dev-sell pattern is the only one; there are at most two
\* patterns, without duplicates; and confidence is 0.0, 0.3 or 0.6.
C27_Consistent ==
    Detected =>
        /\ patterns.is_suspicious <=> patterns.risk_level = "HIGH"
        /\ patterns.risk_level = "HIGH" <=> InSeq(LpPattern, patterns.detected_patterns)
        /\ patterns.risk_level = "MEDIUM" <=> patterns.detected_patterns = <<DevPattern>>
        /\ Len(patterns.detected_patterns) <= 2
        /\ NoDuplicates(patterns.detected_patterns)
        /\ patterns.confidence \in {0, 3, 6}

\* A verdict returned on the exception path: the dev-sell pattern, MEDIUM,
\* confidence 0.0.
C27_Witness ==
    /\ Detected
    /\ raised
    /\ patterns.detected_patterns = <<DevPattern>>
    /\ patterns.risk_level = "MEDIUM"
    /\ patterns.confidence = 0

-----------------------------------------------------------------------------
(* C28 *)

\* C28: whatever the interleaving of the calls, tweets_today never exceeds
\* max_tweets_per_day, and no more than max_tweets_per_day tweets are posted.
C28_DailyLimit ==
    /\ bot.tweets_today <= max_tweets_per_day
    /\ sent <= max_tweets_per_day

-----------------------------------------------------------------------------
(* C29 *)

\* The call of coroutine t returns in this step.
Returns(t) == tasks[t].at # "idle" /\ tasks'[t].at = "idle"

RateLimitState == <<bot.tweets_today, bot.last_tweet_time>>

\* C29: a call that returns without posting (daily limit reached, minimum
\* interval not yet passed, or the client raised) returns False and leaves
\* tweets_today and last_tweet_time as they are; the interval rejection, and
\* no other return, appends the text once to tweet_queue; a successful post,
\* and nothing else, adds exactly 1 to tweets_today and sets last_tweet_time.
C29_FrameEffect ==
    [][/\ \A t \in Tasks :
            Returns(t) =>
                LET r == tasks'[t]
                IN  /\ r.why \in {"limit", "interval", "error"} <=> r.returned = <<FALSE>>
                    /\ r.why = "posted" <=> r.returned = <<TRUE>>
                    /\ r.why = "limit" => bot.tweets_today >= max_tweets_per_day
                    /\ r.why = "interval" =>
                          /\ bot.last_tweet_time # <<>>
                          /\ now - bot.last_tweet_time[1] < min_tweet_interval_minutes
                    /\ r.returned = <<FALSE>> => RateLimitState' = RateLimitState
                    /\ r.why = "interval" =>
                          bot'.tweet_queue = Append(bot.tweet_queue, TextOf(t))
                    /\ r.why # "interval" => bot'.tweet_queue = bot.tweet_queue
                    /\ r.returned = <<TRUE>> =>
                          /\ bot'.tweets_today = bot.tweets_today + 1
                          /\ bot'.last_tweet_time = <<now>>
       /\ RateLimitState' # RateLimitState =>
             \E t \in Tasks : Returns(t) /\ tasks'[t].returned = <<TRUE>>
       /\ bot'.tweet_queue # bot.tweet_queue =>
             \E t \in Tasks : Returns(t) /\ tasks'[t].why = "interval"]_vars

\* After a first tweet, an alert was rejected for the interval and queued,
\* and an update was rejected because the client raised.
C29_Witness ==
    /\ bot.tweets_today = 1
    /\ bot.last_tweet_time = <<0>>
    /\ tasks["alert"].returned = <<FALSE>>
    /\ tasks["alert"].why = "interval"
    /\ bot.tweet_queue = <<TextOf("alert")>>
    /\ tasks["update"].returned = <<FALSE>>
    /\ tasks["update"].why = "error"

-----------------------------------------------------------------------------
(* C30 *)

IsPrefix(p, q) == Len(p) <= Len(q) /\ \A i \in 1..Len(p) : p[i] = q[i]

LimitReached == bot.tweets_today >= max_tweets_per_day

\* C30: no step lowers tweets_today or removes a text from tweet_queue; once
\* tweets_today has reached max_tweets_per_day, every call that is checked
\* returns False and the client posts no further tweet.
C30_NoResetNoDrain ==
    [][/\ bot'.tweets_today >= bot.tweets_today
       /\ IsPrefix(bot.tweet_queue, bot'.tweet_queue)
       /\ LimitReached =>
             /\ \A t \in Tasks :
                   (tasks[t].at = "called" /\ tasks'[t].at # "called") =>
                       /\ tasks'[t].at = "idle"
                       /\ tasks'[t].returned = <<FALSE>>
             /\ sent' = sent]_vars

====
